---- MODULE Spec2Model ----
(***************************************************************************)
(* Model of package client (src/client/client.go): httpClient.RequestURL   *)
(* with its one-shot HTTP Basic authentication retry, the memoised         *)
(* credential string of getBasicAuthStr, and SetCheckRedirect.             *)
(*                                                                         *)
(* Go strings are modelled as sequences of byte values so that splitting,  *)
(* lower-casing, concatenation and base64 encoding are computed, not       *)
(* assumed.  Several goroutines may call RequestURL on the same client.    *)
(***************************************************************************)
EXTENDS Integers, Sequences, FiniteSets, TLC

\* ------------------------------------------------------------------ bounds
\* Number of goroutines calling RequestURL on the one client.
NumCallers == 2

Callers == 1..NumCallers

\* ------------------------------------------------------- string literals
EmptyStr == <<>>
\* "GET"  (client.go:55)
MethodGET == <<71, 69, 84>>
\* "basic"  (client.go:105)
StrBasicLower == <<98, 97, 115, 105, 99>>
\* "Basic "  (client.go:106)
StrBasicPrefix == <<66, 97, 115, 105, 99, 32>>
\* ":"  (client.go:117)
StrColon == <<58>>
\* "Unsupported WWW-Authenticate Method: "  (client.go:109)
StrUnsupported == <<85, 110, 115, 117, 112, 112, 111, 114, 116, 101, 100, 32,
                    87, 87, 87, 45, 65, 117, 116, 104, 101, 110, 116, 105, 99,
                    97, 116, 101, 32, 77, 101, 116, 104, 111, 100, 58, 32>>
\* "Unable to set CheckRedirect, type assertion failed."  (client.go:96)
MsgRedirectFailed == "Unable to set CheckRedirect, type assertion failed."

\* ----------------------------------------------------- input alphabets
\* "user", "pass": the credential strings a client may be built with.
StrUser == <<117, 115, 101, 114>>
StrPass == <<112, 97, 115, 115>>
Usernames == {EmptyStr, StrUser}
Passwords == {EmptyStr, StrPass}
\* "wb": the configured User-Agent.
UserAgents == {<<119, 98>>}
\* Target URLs (u.String()), as opaque names.
URLs == {"http://a/"}
\* WWW-Authenticate values a server may answer with:
\* `Basic realm="x"` and `Digest x`.
ChallengeBasic == <<66, 97, 115, 105, 99, 32, 114, 101, 97, 108, 109, 61, 34, 120, 34>>
ChallengeDigest == <<68, 105, 103, 101, 115, 116, 32, 120>>
\* Values a caller may pass to SetCheckRedirect.
Checkers == {"checkerA", "checkerB"}

\* ------------------------------------------------- strings package / base64
\* strings.ToLower on ASCII.
ToLowerByte(b) == IF b >= 65 /\ b <= 90 THEN b + 32 ELSE b

ToLower(s) == [i \in 1..Len(s) |-> ToLowerByte(s[i])]

\* Index of the first " " in s, or 0.
IndexSpace(s) ==
    IF \E i \in 1..Len(s) : s[i] = 32
    THEN CHOOSE i \in 1..Len(s) : s[i] = 32 /\ \A j \in 1..(i - 1) : s[j] # 32
    ELSE 0

\* strings.SplitN(s, " ", 2): at most two pieces, cut at the first space.
SplitN2(s) ==
    IF IndexSpace(s) = 0
    THEN <<s>>
    ELSE <<SubSeq(s, 1, IndexSpace(s) - 1), SubSeq(s, IndexSpace(s) + 1, Len(s))>>

\* The standard base64 alphabet (RFC 4648), indexed from 1.
B64Alphabet ==
    <<65, 66, 67, 68, 69, 70, 71, 72, 73, 74, 75, 76, 77, 78, 79, 80, 81, 82,
      83, 84, 85, 86, 87, 88, 89, 90, 97, 98, 99, 100, 101, 102, 103, 104, 105,
      106, 107, 108, 109, 110, 111, 112, 113, 114, 115, 116, 117, 118, 119,
      120, 121, 122, 48, 49, 50, 51, 52, 53, 54, 55, 56, 57, 43, 47>>

B64Char(n) == B64Alphabet[n + 1]

\* "=" padding
B64Pad == 61

RECURSIVE Base64Encode(_)
\* base64.StdEncoding.EncodeToString: 3 bytes -> 4 characters, padded.
Base64Encode(b) ==
    IF Len(b) = 0 THEN <<>>
    ELSE IF Len(b) = 1 THEN
        <<B64Char(b[1] \div 4), B64Char((b[1] % 4) * 16), B64Pad, B64Pad>>
    ELSE IF Len(b) = 2 THEN
        <<B64Char(b[1] \div 4),
          B64Char((b[1] % 4) * 16 + (b[2] \div 16)),
          B64Char((b[2] % 16) * 4),
          B64Pad>>
    ELSE
        <<B64Char(b[1] \div 4),
          B64Char((b[1] % 4) * 16 + (b[2] \div 16)),
          B64Char((b[2] % 16) * 4 + (b[3] \div 64)),
          B64Char(b[3] % 64)>> \o Base64Encode(SubSeq(b, 4, Len(b)))

\* ----------------------------------------------------------------- state
VARIABLES
    UserAgent,      \* httpClient.UserAgent
    HTTPUsername,   \* httpClient.HTTPUsername
    HTTPPassword,   \* httpClient.HTTPPassword
    basicAuthStr,   \* httpClient.basicAuthStr (the memoised encoding)
    ClientType,     \* dynamic type of httpClient.Client
    CheckRedirect,  \* http.Client.CheckRedirect of a concrete executor
    logError,       \* messages handed to logging.Logf at level LogError
    logInfo,        \* per goroutine: LogInfo messages its current call logged
    pc,             \* per goroutine: position inside RequestURL
    u,              \* per goroutine: RequestURL's argument
    req,            \* per goroutine: local req
    resp,           \* per goroutine: local resp
    err,            \* per goroutine: local err
    authHeader,     \* per goroutine: local authHeader (client.go:63)
    encoded,        \* per goroutine: the encoding computed at line 118
    sent,           \* per goroutine: requests handed to Client.Do in this call
    recv,           \* per goroutine: (resp, err) pairs Client.Do returned
    ret             \* per goroutine: the (resp, err) pair RequestURL returned

clientVars == <<UserAgent, HTTPUsername, HTTPPassword, ClientType>>
callVars == <<pc, u, req, resp, err, authHeader, encoded, sent, recv, ret>>
vars == <<UserAgent, HTTPUsername, HTTPPassword, basicAuthStr, ClientType,
          CheckRedirect, logError, logInfo, pc, u, req, resp, err, authHeader,
          encoded, sent, recv, ret>>

\* ------------------------------------------------------------ data shapes
\* Go error values: nil, a transport error of the n-th send, or the error
\* addAuthHeader builds with fmt.Errorf.
Nil == [kind |-> "nil", n |-> 0, msg |-> <<>>]

TransportError(n) == [kind |-> "transport", n |-> n, msg |-> <<>>]

\* The nil func value of http.Client.CheckRedirect.
NoChecker == "nil"

\* A nil *http.Response.
NilResp == [id |-> 0, StatusCode |-> 0, WWWAuthenticate |-> <<>>]

\* A nil *http.Request (before makeRequest ran).
NilReq == [Method |-> EmptyStr, URL |-> "", UserAgentHdr |-> <<>>, Authorization |-> <<>>]

\* A response: id tells which send of the call produced it; the header
\* WWW-Authenticate is the list of its values (empty list: header absent).
Response(n, status, challenge) ==
    [id |-> n, StatusCode |-> status, WWWAuthenticate |-> challenge]

\* What the executor may answer to the n-th send of a call: a response with a
\* nil error, or a transport error with a nil or a non-nil response.
DoOutcomes(n) ==
    { [resp |-> Response(n, st, ch), err |-> Nil] :
        st \in {401},
        ch \in {<<>>, <<EmptyStr>>, <<ChallengeBasic>>, <<ChallengeDigest>>} }
    \cup
    { [resp |-> Response(n, st, ch), err |-> Nil] :
        st \in {200},
        ch \in {<<>>, <<ChallengeBasic>>} }
    \cup
    { [resp |-> r, err |-> TransportError(n)] :
        r \in {NilResp, Response(n, 401, <<ChallengeBasic>>)} }

\* http.Header.Get: the first value of the header, "" when absent.
HeaderGet(values) == IF Len(values) = 0 THEN EmptyStr ELSE values[1]

\* A string header read while another goroutine's store of the two-word
\* string (data pointer, length) was half done: non-zero length, nil data.
TornStr == <<-1>>

\* ------------------------------------------------------- client helpers
\* Mutant of makeRequest: the User-Agent header is not set.
makeRequestNoUserAgent(target, method) ==
    [Method |-> method, URL |-> target,
     UserAgentHdr |-> <<>>, Authorization |-> <<>>]

\* Mutant of makeRequest: once the encoding is cached it is attached to every
\* request that is built.
makeRequestPreemptive(target, method) ==
    [Method |-> method, URL |-> target,
     UserAgentHdr |-> <<UserAgent>>,
     Authorization |-> IF basicAuthStr # EmptyStr
                       THEN <<StrBasicPrefix \o basicAuthStr>> ELSE <<>>]

\* makeRequest (client.go:87-91): a fresh request with User-Agent set.
makeRequest(target, method) ==
    [Method |-> method, URL |-> target,
     UserAgentHdr |-> <<UserAgent>>, Authorization |-> <<>>]

\* Mutant of NoCredentials: the test for missing credentials is left out.
NoCredentialsNever == FALSE

\* Mutant of NoCredentials: one empty field is enough to count as none.
NoCredentialsEither == HTTPUsername = EmptyStr \/ HTTPPassword = EmptyStr

\* client.go:69: "No U/P available".
NoCredentials == HTTPUsername = EmptyStr /\ HTTPPassword = EmptyStr

\* Mutant of IsBasicScheme: the scheme is compared as written, "Basic" only.
IsBasicSchemeCaseSensitive(hdr) == SplitN2(hdr)[1] = <<66, 97, 115, 105, 99>>

\* Mutant of IsBasicScheme: the scheme is not looked at.
IsBasicSchemeAlways(hdr) == TRUE

\* client.go:104-105: the scheme test of addAuthHeader.
IsBasicScheme(hdr) == ToLower(SplitN2(hdr)[1]) = StrBasicLower

\* client.go:109: the error addAuthHeader returns for any other scheme.
UnsupportedError(hdr) ==
    [kind |-> "unsupported", n |-> 0, msg |-> StrUnsupported \o SplitN2(hdr)[1]]

\* Mutant of AddAuthorization: the scheme prefix is left out.
AddAuthorizationNoPrefix(r, str) ==
    [r EXCEPT !.Authorization = Append(@, str)]

\* client.go:106: req.Header.Add("Authorization", "Basic " + str).
AddAuthorization(r, str) ==
    [r EXCEPT !.Authorization = Append(@, StrBasicPrefix \o str)]

\* Mutant of EncodeCredentials: the ":" separator is left out.
EncodeCredentialsNoColon == Base64Encode(HTTPUsername \o HTTPPassword)

\* client.go:117-118: base64 of username + ":" + password.
EncodeCredentials == Base64Encode(HTTPUsername \o StrColon \o HTTPPassword)

\* Mutant of FirstSendDecision: the status test is left out, any response
\* carrying a challenge is answered.
FirstSendDecisionNoStatus(r, e) ==
    IF e # Nil THEN "error"
    ELSE IF HeaderGet(r.WWWAuthenticate) = EmptyStr THEN "nochallenge"
    ELSE IF NoCredentials THEN "nocredentials"
    ELSE IF ~IsBasicScheme(HeaderGet(r.WWWAuthenticate)) THEN "unsupported"
    ELSE "retry"

\* Mutant of FirstSendDecision: credentials are offered on every 401, whether
\* or not the server named a scheme.
FirstSendDecisionIgnoresChallenge(r, e) ==
    IF e # Nil THEN "error"
    ELSE IF r.StatusCode # 401 THEN "final"
    ELSE IF NoCredentials THEN "nocredentials"
    ELSE "retry"

\* Mutant of FirstSendDecision: a failed first send is tried again.
FirstSendDecisionRetryError(r, e) ==
    IF e # Nil /\ NoCredentials THEN "error"
    ELSE IF e # Nil THEN "retry"
    ELSE IF r.StatusCode # 401 THEN "final"
    ELSE IF HeaderGet(r.WWWAuthenticate) = EmptyStr THEN "nochallenge"
    ELSE IF NoCredentials THEN "nocredentials"
    ELSE IF ~IsBasicScheme(HeaderGet(r.WWWAuthenticate)) THEN "unsupported"
    ELSE "retry"

\* client.go:58-77: what RequestURL does with the first send's (resp, err).
FirstSendDecision(r, e) ==
    IF e # Nil THEN "error"
    ELSE IF r.StatusCode # 401 THEN "final"
    ELSE IF HeaderGet(r.WWWAuthenticate) = EmptyStr THEN "nochallenge"
    ELSE IF NoCredentials THEN "nocredentials"
    ELSE IF ~IsBasicScheme(HeaderGet(r.WWWAuthenticate)) THEN "unsupported"
    ELSE "retry"

\* Mutant of FirstSendResult: the error of addAuthHeader is handed to the caller.
FirstSendResultLeaksSchemeError(d, out) ==
    [resp |-> out.resp,
     err |-> IF d = "error" THEN out.err
             ELSE IF d = "unsupported"
             THEN [kind |-> "unsupported", n |-> 0,
                   msg |-> StrUnsupported \o SplitN2(HeaderGet(out.resp.WWWAuthenticate))[1]]
             ELSE Nil]

\* client.go:59, 66, 70, 76: the pair RequestURL returns when it returns after
\* the first send: the send's error only when the send itself failed.
FirstSendResult(d, out) ==
    [resp |-> out.resp, err |-> IF d = "error" THEN out.err ELSE Nil]

\* Mutant of RetryResult: a failed retry falls back to no response at all.
RetryResultDropsResponse(out) ==
    [resp |-> IF out.err # Nil THEN NilResp ELSE out.resp, err |-> out.err]

\* client.go:78-83: the pair RequestURL returns after the retry send.
RetryResult(out) ==
    [resp |-> out.resp, err |-> IF out.err # Nil THEN out.err ELSE Nil]

\* The values a read of c.basicAuthStr by goroutine t can observe.  The field
\* is read and written without synchronisation (client.go:114-119).  A Go
\* string is two words (data, len); while another goroutine is storing the
\* first non-empty value, a reader may see the old empty string, the new
\* string, or the new length with the old nil data pointer (TornStr).  Once a
\* non-empty value is stored every later store writes the same length and a
\* valid pointer to the same bytes, so the reader sees that value.
Observable(t) ==
    IF basicAuthStr = EmptyStr /\ \E o \in Callers \ {t} : pc[o] = "gbStore"
    THEN {EmptyStr, TornStr} \cup {encoded[o] : o \in {x \in Callers \ {t} : pc[x] = "gbStore"}}
    ELSE {basicAuthStr}

\* A panic in one goroutine (nobody recovers in this package) ends the process.
Running == \A t \in Callers : pc[t] # "panicked"

\* ------------------------------------------------------------------ Init
Init ==
    /\ UserAgent \in UserAgents
    /\ HTTPUsername \in Usernames
    /\ HTTPPassword \in Passwords
    /\ basicAuthStr = EmptyStr
    /\ ClientType \in {"http.Client", "mock"}
    /\ CheckRedirect = NoChecker
    /\ logError = {}
    /\ logInfo = [t \in Callers |-> {}]
    /\ pc = [t \in Callers |-> "idle"]
    /\ u = [t \in Callers |-> ""]
    /\ req = [t \in Callers |-> NilReq]
    /\ resp = [t \in Callers |-> NilResp]
    /\ err = [t \in Callers |-> Nil]
    /\ authHeader = [t \in Callers |-> EmptyStr]
    /\ encoded = [t \in Callers |-> EmptyStr]
    /\ sent = [t \in Callers |-> <<>>]
    /\ recv = [t \in Callers |-> <<>>]
    /\ ret = [t \in Callers |-> [resp |-> NilResp, err |-> Nil]]

\* --------------------------------------------------------------- actions
\* Mutant of Call: the encoding is computed and cached as soon as a call starts.
CallPrecomputes(t, target) ==
    /\ Running
    /\ pc[t] = "idle"
    /\ pc' = [pc EXCEPT ![t] = "do1"]
    /\ u' = [u EXCEPT ![t] = target]
    /\ req' = [req EXCEPT ![t] = makeRequest(target, MethodGET)]
    /\ basicAuthStr' = IF NoCredentials THEN basicAuthStr ELSE EncodeCredentials
    /\ UNCHANGED <<clientVars, CheckRedirect, logError, logInfo, resp, err,
                   authHeader, encoded, sent, recv, ret>>

\* RequestURL entered (client.go:53-56): req := c.makeRequest(u, "GET").
Call(t, target) ==
    /\ Running
    /\ pc[t] = "idle"
    /\ pc' = [pc EXCEPT ![t] = "do1"]
    /\ u' = [u EXCEPT ![t] = target]
    /\ req' = [req EXCEPT ![t] = makeRequest(target, MethodGET)]
    /\ UNCHANGED <<clientVars, basicAuthStr, CheckRedirect, logError, logInfo, resp, err,
                   authHeader, encoded, sent, recv, ret>>

\* client.go:57-77: the first c.Client.Do(req) and everything up to either a
\* return or the call of getBasicAuthStr from addAuthHeader.
FirstDo(t) ==
    /\ Running
    /\ pc[t] = "do1"
    /\ \E out \in DoOutcomes(1) :
        LET d == FirstSendDecision(out.resp, out.err)
            hdr == HeaderGet(out.resp.WWWAuthenticate)
        IN  /\ sent' = [sent EXCEPT ![t] = Append(@, req[t])]
            /\ recv' = [recv EXCEPT ![t] = Append(@, out)]
            /\ resp' = [resp EXCEPT ![t] = out.resp]
            /\ err' = [err EXCEPT ![t] =
                         IF d = "unsupported" THEN UnsupportedError(hdr)
                         ELSE out.err]
            /\ authHeader' = [authHeader EXCEPT ![t] =
                         IF out.err = Nil /\ out.resp.StatusCode = 401
                         THEN hdr ELSE @]
            /\ req' = [req EXCEPT ![t] =
                         IF d \in {"unsupported", "retry"}
                         THEN makeRequest(u[t], MethodGET) ELSE @]
            /\ logInfo' = [logInfo EXCEPT ![t] =
                             IF d = "unsupported"
                             THEN @ \cup {UnsupportedError(hdr).msg}
                             ELSE @]
            /\ pc' = [pc EXCEPT ![t] = IF d = "retry" THEN "gbCheck" ELSE "done"]
            /\ ret' = [ret EXCEPT ![t] =
                         IF d = "retry" THEN @ ELSE FirstSendResult(d, out)]
    /\ UNCHANGED <<clientVars, basicAuthStr, CheckRedirect, logError, u, encoded>>

\* getBasicAuthStr, client.go:114: if c.basicAuthStr != "".
gbCheck(t) ==
    /\ Running
    /\ pc[t] = "gbCheck"
    /\ \E v \in Observable(t) :
        pc' = [pc EXCEPT ![t] = IF v # EmptyStr THEN "gbLoad" ELSE "gbCompute"]
    /\ UNCHANGED <<clientVars, basicAuthStr, CheckRedirect, logError, logInfo, u, req, resp,
                   err, authHeader, encoded, sent, recv, ret>>

\* client.go:115 return c.basicAuthStr, then client.go:106-107 and 74: the
\* header is built from the value read.  Concatenating a string whose data
\* pointer is nil copies from address 0: a nil-dereference panic.
gbLoad(t) ==
    /\ Running
    /\ pc[t] = "gbLoad"
    /\ \E v \in Observable(t) \ {EmptyStr} :
        IF v = TornStr
        THEN /\ pc' = [pc EXCEPT ![t] = "panicked"]
             /\ UNCHANGED <<req, err>>
        ELSE /\ pc' = [pc EXCEPT ![t] = "do2"]
             /\ req' = [req EXCEPT ![t] = AddAuthorization(@, v)]
             /\ err' = [err EXCEPT ![t] = Nil]
    /\ UNCHANGED <<clientVars, basicAuthStr, CheckRedirect, logError, logInfo, u, resp,
                   authHeader, encoded, sent, recv, ret>>

\* client.go:117-118, right-hand side: the encoding is computed.
gbCompute(t) ==
    /\ Running
    /\ pc[t] = "gbCompute"
    /\ encoded' = [encoded EXCEPT ![t] = EncodeCredentials]
    /\ pc' = [pc EXCEPT ![t] = "gbStore"]
    /\ UNCHANGED <<clientVars, basicAuthStr, CheckRedirect, logError, logInfo, u, req, resp,
                   err, authHeader, sent, recv, ret>>

\* Mutant of gbStore: the encoding is returned but never stored in the field.
gbStoreForgets(t) ==
    /\ Running
    /\ pc[t] = "gbStore"
    /\ basicAuthStr' = basicAuthStr
    /\ req' = [req EXCEPT ![t] = AddAuthorization(@, encoded[t])]
    /\ err' = [err EXCEPT ![t] = Nil]
    /\ pc' = [pc EXCEPT ![t] = "do2"]
    /\ UNCHANGED <<clientVars, CheckRedirect, logError, logInfo, u, resp, authHeader,
                   encoded, sent, recv, ret>>

\* client.go:118 the store to c.basicAuthStr, client.go:119 return
\* c.basicAuthStr, then client.go:106-107 and 74.
gbStore(t) ==
    /\ Running
    /\ pc[t] = "gbStore"
    /\ basicAuthStr' = encoded[t]
    /\ req' = [req EXCEPT ![t] = AddAuthorization(@, basicAuthStr')]
    /\ err' = [err EXCEPT ![t] = Nil]
    /\ pc' = [pc EXCEPT ![t] = "do2"]
    /\ UNCHANGED <<clientVars, CheckRedirect, logError, logInfo, u, resp, authHeader,
                   encoded, sent, recv, ret>>

\* Mutant of SecondDo: a retry answered 401 is handled like the first answer,
\* the challenge is answered again.
SecondDoLoops(t) ==
    /\ Running
    /\ pc[t] = "do2"
    /\ \E out \in DoOutcomes(2) :
        /\ sent' = [sent EXCEPT ![t] = Append(@, req[t])]
        /\ recv' = [recv EXCEPT ![t] = Append(@, out)]
        /\ resp' = [resp EXCEPT ![t] = out.resp]
        /\ err' = [err EXCEPT ![t] = out.err]
        /\ IF FirstSendDecision(out.resp, out.err) = "retry"
           THEN /\ pc' = [pc EXCEPT ![t] = "gbCheck"]
                /\ ret' = ret
           ELSE /\ pc' = [pc EXCEPT ![t] = "done"]
                /\ ret' = [ret EXCEPT ![t] = RetryResult(out)]
    /\ UNCHANGED <<clientVars, basicAuthStr, CheckRedirect, logError, logInfo, u, req,
                   authHeader, encoded>>

\* client.go:78-83: the retry c.Client.Do(req) and the return.
SecondDo(t) ==
    /\ Running
    /\ pc[t] = "do2"
    /\ \E out \in DoOutcomes(2) :
        /\ sent' = [sent EXCEPT ![t] = Append(@, req[t])]
        /\ recv' = [recv EXCEPT ![t] = Append(@, out)]
        /\ resp' = [resp EXCEPT ![t] = out.resp]
        /\ err' = [err EXCEPT ![t] = out.err]
        /\ ret' = [ret EXCEPT ![t] = RetryResult(out)]
    /\ pc' = [pc EXCEPT ![t] = "done"]
    /\ UNCHANGED <<clientVars, basicAuthStr, CheckRedirect, logError, logInfo, u, req,
                   authHeader, encoded>>

\* The caller has taken RequestURL's result; the goroutine's frame is gone
\* and it may call again.
Finish(t) ==
    /\ Running
    /\ pc[t] = "done"
    /\ pc' = [pc EXCEPT ![t] = "idle"]
    /\ u' = [u EXCEPT ![t] = ""]
    /\ req' = [req EXCEPT ![t] = NilReq]
    /\ resp' = [resp EXCEPT ![t] = NilResp]
    /\ err' = [err EXCEPT ![t] = Nil]
    /\ authHeader' = [authHeader EXCEPT ![t] = EmptyStr]
    /\ encoded' = [encoded EXCEPT ![t] = EmptyStr]
    /\ sent' = [sent EXCEPT ![t] = <<>>]
    /\ recv' = [recv EXCEPT ![t] = <<>>]
    /\ ret' = [ret EXCEPT ![t] = [resp |-> NilResp, err |-> Nil]]
    /\ logInfo' = [logInfo EXCEPT ![t] = {}]
    /\ UNCHANGED <<clientVars, basicAuthStr, CheckRedirect, logError>>

\* Mutant of SetCheckRedirect: the result of the type assertion is not tested,
\* the policy is stored whatever the executor is.
SetCheckRedirectUnchecked(checker) ==
    /\ Running
    /\ CheckRedirect' = checker
    /\ logError' = logError
    /\ UNCHANGED <<clientVars, basicAuthStr, logInfo, callVars>>

\* Mutant of SetCheckRedirect: a policy is installed only while none is set.
SetCheckRedirectKeepsFirst(checker) ==
    /\ Running
    /\ IF ClientType = "http.Client"
       THEN /\ CheckRedirect' = IF CheckRedirect = NoChecker THEN checker ELSE CheckRedirect
            /\ logError' = logError
       ELSE /\ logError' = logError \cup {MsgRedirectFailed}
            /\ CheckRedirect' = CheckRedirect
    /\ UNCHANGED <<clientVars, basicAuthStr, logInfo, callVars>>

\* SetCheckRedirect (client.go:93-100).
SetCheckRedirect(checker) ==
    /\ Running
    /\ IF ClientType = "http.Client"
       THEN /\ CheckRedirect' = checker
            /\ logError' = logError
       ELSE /\ logError' = logError \cup {MsgRedirectFailed}
            /\ CheckRedirect' = CheckRedirect
    /\ UNCHANGED <<clientVars, basicAuthStr, logInfo, callVars>>

Next ==
    \/ \E t \in Callers, target \in URLs : Call(t, target)
    \/ \E t \in Callers : FirstDo(t)
    \/ \E t \in Callers : gbCheck(t)
    \/ \E t \in Callers : gbLoad(t)
    \/ \E t \in Callers : gbCompute(t)
    \/ \E t \in Callers : gbStore(t)
    \/ \E t \in Callers : SecondDo(t)
    \/ \E t \in Callers : Finish(t)
    \/ \E checker \in Checkers : SetCheckRedirect(checker)

Spec == Init /\ [][Next]_vars

\* ------------------------------------------- addAuthHeader called alone
\* Challenge values handed to addAuthHeader directly: "basic", "BASIC x",
\* "bAsIc", `Basic realm="x"`, " Basic" (leading space), "Digest x",
\* "Basicx" and "".
ChallengeBasicBare == <<98, 97, 115, 105, 99>>
ChallengeBasicUpper == <<66, 65, 83, 73, 67, 32, 120>>
ChallengeBasicMixed == <<98, 65, 115, 73, 99>>
ChallengeLeadingSpace == <<32, 66, 97, 115, 105, 99>>
ChallengeBasicx == <<66, 97, 115, 105, 99, 120>>
Challenges ==
    {ChallengeBasicBare, ChallengeBasicUpper, ChallengeBasicMixed, ChallengeBasic,
     ChallengeLeadingSpace, ChallengeDigest, ChallengeBasicx, EmptyStr}

\* addAuthHeader(req, authHeader) entered on a request built by makeRequest
\* (client.go:103-105, 109), one call at a time.  A Basic challenge goes on
\* into getBasicAuthStr; pc "do2" is then the point where addAuthHeader has
\* returned nil.  Any other challenge returns the error at once.
AddAuthCall(t, target, h) ==
    /\ Running
    /\ \A o \in Callers : pc[o] = "idle"
    /\ req' = [req EXCEPT ![t] = makeRequest(target, MethodGET)]
    /\ authHeader' = [authHeader EXCEPT ![t] = h]
    /\ IF IsBasicScheme(h)
       THEN /\ pc' = [pc EXCEPT ![t] = "gbCheck"]
            /\ err' = err
       ELSE /\ pc' = [pc EXCEPT ![t] = "addAuthErr"]
            /\ err' = [err EXCEPT ![t] = UnsupportedError(h)]
    /\ UNCHANGED <<clientVars, basicAuthStr, CheckRedirect, logError, logInfo, u, resp,
                   encoded, sent, recv, ret>>

\* The caller of addAuthHeader has taken its result.
AddAuthReturn(t) ==
    /\ Running
    /\ pc[t] \in {"do2", "addAuthErr"}
    /\ pc' = [pc EXCEPT ![t] = "idle"]
    /\ req' = [req EXCEPT ![t] = NilReq]
    /\ err' = [err EXCEPT ![t] = Nil]
    /\ authHeader' = [authHeader EXCEPT ![t] = EmptyStr]
    /\ encoded' = [encoded EXCEPT ![t] = EmptyStr]
    /\ UNCHANGED <<clientVars, basicAuthStr, CheckRedirect, logError, logInfo, u, resp,
                   sent, recv, ret>>

NextAuth ==
    \/ \E t \in Callers, target \in URLs, h \in Challenges : AddAuthCall(t, target, h)
    \/ \E t \in Callers : gbCheck(t)
    \/ \E t \in Callers : gbLoad(t)
    \/ \E t \in Callers : gbCompute(t)
    \/ \E t \in Callers : gbStore(t)
    \/ \E t \in Callers : AddAuthReturn(t)

AuthSpec == Init /\ [][NextAuth]_vars

\* ------------------------------------------------------------- the claims
\* What the claims expect on the wire: "Basic " + base64(username:password),
\* written out from the client's fields.
ExpectedAuthorization ==
    StrBasicPrefix \o Base64Encode(HTTPUsername \o StrColon \o HTTPPassword)

\* "Basic dXNlcjpwYXNz", the header RFC 7617 gives for user / pass.
BasicUserPass ==
    <<66, 97, 115, 105, 99, 32, 100, 88, 78, 108, 99, 106, 112, 119, 89, 88,
      78, 122>>

\* The call of goroutine t has returned.
Returned(t) == pc[t] = "done"

\* The first send of t's call came back without a transport error, with
\* status 401.
First401(t) ==
    /\ Len(recv[t]) >= 1
    /\ recv[t][1].err = Nil
    /\ recv[t][1].resp.StatusCode = 401

\* The WWW-Authenticate value of the first response of t's call.
FirstChallenge(t) == HeaderGet(recv[t][1].resp.WWWAuthenticate)

HasCredentials == ~(HTTPUsername = EmptyStr /\ HTTPPassword = EmptyStr)

\* C1: a call whose first send was answered 401 with a Basic challenge, on a
\* client with credentials, returns only after a second send whose
\* Authorization header is "Basic " + base64(user ":" pass) (for user / pass:
\* "Basic dXNlcjpwYXNz"), and its result is the second send's response.
C1_BasicRetry ==
    \A t \in Callers :
        (Returned(t) /\ First401(t) /\ FirstChallenge(t) = ChallengeBasic
            /\ HasCredentials)
        => /\ Len(sent[t]) = 2
           /\ sent[t][2].Authorization = <<ExpectedAuthorization>>
           /\ (HTTPUsername = StrUser /\ HTTPPassword = StrPass
                 => sent[t][2].Authorization = <<BasicUserPass>>)
           /\ ret[t] = recv[t][2]

C1_Witness ==
    \E t \in Callers :
        /\ Returned(t) /\ First401(t) /\ FirstChallenge(t) = ChallengeBasic
        /\ HTTPUsername = StrUser /\ HTTPPassword = StrPass
        /\ Len(sent[t]) = 2
        /\ ret[t].resp.StatusCode = 200

\* C2: once the first send is answered without error by a status other than
\* 401, the call has returned exactly that response with a nil error, and has
\* sent once.
C2_Non401Final ==
    \A t \in Callers :
        (Len(recv[t]) >= 1 /\ recv[t][1].err = Nil
            /\ recv[t][1].resp.StatusCode # 401)
        => /\ Returned(t)
           /\ ret[t] = [resp |-> recv[t][1].resp, err |-> Nil]
           /\ Len(sent[t]) = 1

C2_Witness ==
    \E t \in Callers :
        /\ Returned(t)
        /\ recv[t][1].err = Nil
        /\ recv[t][1].resp.StatusCode = 200
        /\ recv[t][1].resp.WWWAuthenticate = <<ChallengeBasic>>
        /\ HasCredentials
        /\ Len(sent[t]) = 1

\* The four conditions under which the code sends again.
RetryConditions(t) ==
    /\ First401(t)
    /\ FirstChallenge(t) # EmptyStr
    /\ HasCredentials
    /\ ToLower(SplitN2(FirstChallenge(t))[1]) = StrBasicLower

\* C3: no call sends more than twice; a call has sent twice only if the first
\* send succeeded with 401, a non-empty challenge, credentials and the Basic
\* scheme, and a returned call under these conditions has sent twice; the
\* second response is the result whatever its status.
C3_AtMostOneRetry ==
    \A t \in Callers :
        /\ Len(sent[t]) <= 2
        /\ (Len(sent[t]) = 2 => RetryConditions(t))
        /\ (Returned(t) /\ RetryConditions(t) => Len(sent[t]) = 2)
        /\ (Returned(t) /\ Len(sent[t]) = 2 => ret[t].resp = recv[t][2].resp)
        /\ (Len(sent[t]) = 2 => Returned(t))

C3_Witness ==
    \E t \in Callers :
        /\ Returned(t)
        /\ Len(sent[t]) = 2
        /\ recv[t][2].err = Nil
        /\ recv[t][2].resp.StatusCode = 401
        /\ recv[t][2].resp.WWWAuthenticate = <<ChallengeBasic>>
        /\ ret[t].resp = recv[t][2].resp

\* C4: a failed first send ends the call at once with that send's (response,
\* error) pair after one send; a failed retry send ends it with the retry
\* send's pair after two sends.
C4_TransportErrorPropagated ==
    \A t \in Callers :
        /\ (Len(recv[t]) >= 1 /\ recv[t][1].err # Nil)
           => (Returned(t) /\ ret[t] = recv[t][1] /\ Len(sent[t]) = 1)
        /\ (Len(recv[t]) = 2 /\ recv[t][2].err # Nil)
           => (Returned(t) /\ ret[t] = recv[t][2] /\ Len(sent[t]) = 2)

C4_Witness ==
    \E t \in Callers :
        /\ Returned(t)
        /\ Len(sent[t]) = 2
        /\ recv[t][2].err = TransportError(2)
        /\ recv[t][2].resp # NilResp
        /\ ret[t] = recv[t][2]

\* The first response of t's call, handed back with a nil error.
FirstResponseReturned(t) ==
    /\ Returned(t)
    /\ Len(sent[t]) = 1
    /\ ret[t] = [resp |-> recv[t][1].resp, err |-> Nil]

\* C5: a returned call carries an error only if its last send failed, and then
\* it is that send's transport error; a 401 whose challenge is missing, or met
\* without credentials, or of an unsupported scheme, comes back as the first
\* response with a nil error.
C5_OnlyTransportErrors ==
    \A t \in Callers :
        Returned(t) =>
            /\ (ret[t].err # Nil =>
                   /\ ret[t].err = recv[t][Len(recv[t])].err
                   /\ ret[t].err.kind = "transport")
            /\ (First401(t) /\ ~RetryConditions(t) =>
                   ret[t] = [resp |-> recv[t][1].resp, err |-> Nil])

C5_Witness ==
    \E t \in Callers :
        /\ Returned(t) /\ First401(t)
        /\ FirstChallenge(t) = ChallengeDigest
        /\ HasCredentials
        /\ logInfo[t] # {}
        /\ ret[t].err = Nil

\* C6: after a 401 whose challenge names a scheme other than Basic, the call
\* has returned the first response with a nil error and has sent once, with
\* or without credentials.
C6_UnsupportedSchemeNotRetried ==
    \A t \in Callers :
        (First401(t) /\ FirstChallenge(t) # EmptyStr
            /\ ToLower(SplitN2(FirstChallenge(t))[1]) # StrBasicLower)
        => FirstResponseReturned(t)

C6_Witness ==
    \E t \in Callers :
        /\ First401(t) /\ FirstChallenge(t) = ChallengeDigest
        /\ HTTPUsername = StrUser /\ HTTPPassword = StrPass
        /\ FirstResponseReturned(t)

\* C7: after a 401 with a Basic challenge on a client whose username and
\* password are both empty, the call has returned the first response and has
\* sent once.
C7_NoCredentialsNotRetried ==
    \A t \in Callers :
        (First401(t) /\ FirstChallenge(t) = ChallengeBasic
            /\ HTTPUsername = EmptyStr /\ HTTPPassword = EmptyStr)
        => FirstResponseReturned(t)

C7_Witness ==
    \E t \in Callers :
        /\ First401(t) /\ FirstChallenge(t) = ChallengeBasic
        /\ HTTPUsername = EmptyStr /\ HTTPPassword = EmptyStr
        /\ FirstResponseReturned(t)

\* C8: after a 401 whose WWW-Authenticate header is absent or empty, the
\* call has returned that response and has sent once, with or without
\* credentials.
C8_NoChallengeNotRetried ==
    \A t \in Callers :
        (First401(t) /\ FirstChallenge(t) = EmptyStr)
        => FirstResponseReturned(t)

C8_Witness ==
    \E t1 \in Callers, t2 \in Callers :
        /\ HasCredentials
        /\ First401(t1) /\ recv[t1][1].resp.WWWAuthenticate = <<>>
        /\ First401(t2) /\ recv[t2][1].resp.WWWAuthenticate = <<EmptyStr>>
        /\ FirstResponseReturned(t1)
        /\ FirstResponseReturned(t2)

\* C9: under every interleaving of concurrent calls the cache holds nothing
\* but "" or base64(username:password), no retry send carries anything else,
\* and a call that races with another one's store comes to no harm: it reads
\* the encoding or computes it again.
C9_RaceHarmless ==
    /\ basicAuthStr \in {EmptyStr, Base64Encode(HTTPUsername \o StrColon \o HTTPPassword)}
    /\ \A t \in Callers :
        /\ (Len(sent[t]) = 2 => sent[t][2].Authorization = <<ExpectedAuthorization>>)
        /\ pc[t] # "panicked"

\* The cache is empty or holds base64(username:password).
CacheValid ==
    basicAuthStr \in {EmptyStr, Base64Encode(HTTPUsername \o StrColon \o HTTPPassword)}

\* C10: in every state the cached string is empty or base64(username:password),
\* and no step changes it once it is non-empty.
C10_CacheStable ==
    /\ []CacheValid
    /\ [][basicAuthStr # EmptyStr => basicAuthStr' = basicAuthStr]_vars

C10_Witness ==
    /\ basicAuthStr # EmptyStr
    /\ CheckRedirect # NoChecker
    /\ \E t \in Callers : pc[t] = "do2" /\ encoded[t] = EmptyStr

\* "Basic Og==": the header for an empty username and an empty password.
BasicEmptyEmpty == <<66, 97, 115, 105, 99, 32, 79, 103, 61, 61>>

\* C11: getBasicAuthStr called again on the same client (here through
\* addAuthHeader, one call after the other): every call hands back
\* base64(username:password), which is never empty, so the first call leaves
\* the cache filled; and once the cache is filled no step writes it and no call
\* reaches the computation.
C11_Memoized ==
    /\ [](\A t \in Callers :
            pc[t] = "do2" =>
                /\ basicAuthStr # EmptyStr
                /\ req[t].Authorization = <<ExpectedAuthorization>>
                /\ (HTTPUsername = EmptyStr /\ HTTPPassword = EmptyStr
                      => req[t].Authorization = <<BasicEmptyEmpty>>))
    /\ [][basicAuthStr # EmptyStr =>
            /\ basicAuthStr' = basicAuthStr
            /\ \A t \in Callers : pc'[t] \notin {"gbCompute", "gbStore"}]_vars

C11_Witness ==
    \E t \in Callers :
        /\ pc[t] = "do2"
        /\ encoded[t] = EmptyStr
        /\ HTTPUsername = EmptyStr /\ HTTPPassword = StrPass
        /\ req[t].Authorization = <<StrBasicPrefix \o basicAuthStr>>

\* C12: on a client whose executor is a substitute, SetCheckRedirect ends
\* without a panic, installs nothing and leaves every field of the client and
\* every call in progress as it was (it only logs); no step at all changes the
\* redirect policy or the client's fields there.
C12_SubstituteUntouched ==
    [][ClientType = "mock" =>
          /\ CheckRedirect' = CheckRedirect
          /\ UNCHANGED clientVars
          /\ \A c \in Checkers :
                SetCheckRedirect(c) =>
                    /\ Running'
                    /\ UNCHANGED <<clientVars, basicAuthStr, CheckRedirect,
                                   logInfo, callVars>>]_vars

C12_Witness ==
    /\ ClientType = "mock"
    /\ MsgRedirectFailed \in logError
    /\ CheckRedirect = NoChecker
    /\ \E t \in Callers : Returned(t) /\ Len(sent[t]) = 2

\* C13: on a client whose executor is the concrete http.Client, every
\* SetCheckRedirect(c) can be taken and leaves c installed, whatever was
\* installed before, and changes nothing else; no other step changes the
\* installed policy.  So the policy is always the one of the latest call.
C13_ConcreteInstalls ==
    /\ []((ClientType = "http.Client" /\ Running) =>
            \A c \in Checkers : ENABLED (SetCheckRedirect(c) /\ CheckRedirect' = c))
    /\ [][ClientType = "http.Client" =>
            /\ \A c \in Checkers :
                  SetCheckRedirect(c) =>
                      /\ CheckRedirect' = c
                      /\ UNCHANGED <<clientVars, basicAuthStr, logError, logInfo,
                                     callVars>>
            /\ (CheckRedirect' # CheckRedirect =>
                  /\ CheckRedirect' \in Checkers
                  /\ UNCHANGED <<clientVars, basicAuthStr, logError, logInfo,
                                 callVars>>)]_vars

C13_Witness ==
    /\ ClientType = "http.Client"
    /\ CheckRedirect = "checkerB"
    /\ logError = {}
    /\ \E t \in Callers : Returned(t) /\ Len(sent[t]) = 2

\* C14: every request handed to the executor, first send and retry send, is
\* a GET for the URL the call was given and carries exactly one User-Agent
\* value, the client's.
C14_RequestShape ==
    \A t \in Callers :
        \A i \in 1..Len(sent[t]) :
            /\ sent[t][i].Method = MethodGET
            /\ sent[t][i].URL = u[t]
            /\ u[t] \in URLs
            /\ sent[t][i].UserAgentHdr = <<UserAgent>>

C14_Witness ==
    \E t \in Callers :
        /\ Len(sent[t]) = 2
        /\ sent[t][1].UserAgentHdr = <<UserAgent>>
        /\ sent[t][2].UserAgentHdr = <<UserAgent>>
        /\ sent[t][2].URL = u[t]

\* C15 as stated: a returned call has sent zero times or twice.
C15_ZeroOrTwoSends ==
    \A t \in Callers : Returned(t) => Len(sent[t]) \in {0, 2}

\* C15, amended: a returned call has sent once or twice, never zero times,
\* never more than twice.
C15_OneOrTwoSends ==
    \A t \in Callers : Returned(t) => Len(sent[t]) \in {1, 2}

C15_Witness ==
    \E t \in Callers :
        /\ Returned(t)
        /\ Len(sent[t]) = 1
        /\ ret[t].resp.StatusCode = 200
        /\ ret[t].err = Nil

\* "Basic dXNlcjo=" (user, empty password) and "Basic OnBhc3M=" (empty
\* username, pass).
BasicUserOnly ==
    <<66, 97, 115, 105, 99, 32, 100, 88, 78, 108, 99, 106, 111, 61>>
BasicPassOnly ==
    <<66, 97, 115, 105, 99, 32, 79, 110, 66, 104, 99, 51, 77, 61>>

ExactlyOneCredential ==
    (HTTPUsername = EmptyStr) # (HTTPPassword = EmptyStr)

\* C17: with exactly one of username and password non-empty, a returned call
\* whose first send got 401 with a Basic challenge has sent the retry, with
\* Authorization "Basic " + base64(username:password).
C17_OneCredentialRetries ==
    \A t \in Callers :
        (Returned(t) /\ First401(t) /\ FirstChallenge(t) = ChallengeBasic
            /\ ExactlyOneCredential)
        => /\ Len(sent[t]) = 2
           /\ sent[t][2].Authorization = <<ExpectedAuthorization>>
           /\ (HTTPPassword = EmptyStr => sent[t][2].Authorization = <<BasicUserOnly>>)
           /\ (HTTPUsername = EmptyStr => sent[t][2].Authorization = <<BasicPassOnly>>)

C17_Witness ==
    \E t \in Callers :
        /\ Returned(t) /\ First401(t) /\ FirstChallenge(t) = ChallengeBasic
        /\ HTTPUsername = StrUser /\ HTTPPassword = EmptyStr
        /\ Len(sent[t]) = 2

\* C18: the first request of a call, built or sent, carries no Authorization
\* header, whatever the cache holds; a sent request carries one only as the
\* second send of a call whose first send got 401 with a Basic challenge.
C18_NoUnpromptedCredentials ==
    \A t \in Callers :
        /\ (pc[t] = "do1" => req[t].Authorization = <<>>)
        /\ (Len(sent[t]) >= 1 => sent[t][1].Authorization = <<>>)
        /\ \A i \in 1..Len(sent[t]) :
              sent[t][i].Authorization # <<>> =>
                  /\ i = 2
                  /\ First401(t)
                  /\ ToLower(SplitN2(FirstChallenge(t))[1]) = StrBasicLower

C18_Witness ==
    \E t \in Callers :
        /\ Len(sent[t]) = 2
        /\ encoded[t] = EmptyStr
        /\ basicAuthStr # EmptyStr
        /\ sent[t][1].Authorization = <<>>
        /\ sent[t][2].Authorization = <<StrBasicPrefix \o basicAuthStr>>

\* C19: user agent, username and password are never written; the cache is
\* written only by a call that is on its way to the retry send; a call that
\* returns straight after its first send changes no field of the client and
\* has never computed the encoding.
C19_SingleSendFrame ==
    /\ [](\A t \in Callers :
            (Returned(t) /\ Len(sent[t]) = 1) => encoded[t] = EmptyStr)
    /\ [][/\ UNCHANGED <<UserAgent, HTTPUsername, HTTPPassword>>
          /\ (basicAuthStr' # basicAuthStr =>
                \E t \in Callers :
                    /\ pc[t] = "gbStore" /\ pc'[t] = "do2"
                    /\ RetryConditions(t))
          /\ \A t \in Callers :
                (pc[t] = "do1" /\ pc'[t] = "done") =>
                    UNCHANGED <<clientVars, basicAuthStr, CheckRedirect>>]_vars

C19_Witness ==
    \E t \in Callers :
        /\ Returned(t) /\ Len(sent[t]) = 1
        /\ First401(t) /\ FirstChallenge(t) = ChallengeDigest
        /\ HasCredentials
        /\ basicAuthStr = EmptyStr

\* The challenges whose text before the first space is "basic" in some
\* letter case, and the others, listed by hand.
BasicTokenChallenges ==
    {ChallengeBasicBare, ChallengeBasicUpper, ChallengeBasicMixed, ChallengeBasic}

OtherTokenChallenges ==
    {ChallengeLeadingSpace, ChallengeDigest, ChallengeBasicx, EmptyStr}

\* "Digest"
StrDigest == <<68, 105, 103, 101, 115, 116>>

\* C16: addAuthHeader goes on to attach the header exactly for the challenges
\* whose first token is "basic" in any letter case, with or without
\* parameters, and then returns nil with Authorization attached; for every
\* other first token, the empty one of a leading space included, it attaches
\* nothing and returns the error naming that token.
C16_SchemeToken ==
    \A t \in Callers :
        /\ (pc[t] \in {"gbCheck", "gbLoad", "gbCompute", "gbStore", "do2"}
              => authHeader[t] \in BasicTokenChallenges)
        /\ (pc[t] = "do2" =>
              /\ req[t].Authorization = <<ExpectedAuthorization>>
              /\ err[t] = Nil)
        /\ (pc[t] = "addAuthErr" =>
              /\ authHeader[t] \in OtherTokenChallenges
              /\ req[t].Authorization = <<>>
              /\ err[t].kind = "unsupported"
              /\ (authHeader[t] = ChallengeLeadingSpace => err[t].msg = StrUnsupported)
              /\ (authHeader[t] = ChallengeDigest
                    => err[t].msg = StrUnsupported \o StrDigest))

C16_Witness ==
    \E t \in Callers :
        /\ pc[t] = "addAuthErr"
        /\ authHeader[t] = ChallengeLeadingSpace
        /\ req[t].Authorization = <<>>
        /\ basicAuthStr # EmptyStr
====
